---- MODULE Spec2Model ----
(***************************************************************************)
(* The installation sync engine of src/src/sync/installation.ts:           *)
(* getNextTask, updateJobStatus and processInstallation, run by workers    *)
(* that take jobs from the "Initial sync" queue, against one persisted     *)
(* subscription row.                                                       *)
(***************************************************************************)
EXTENDS Integers, Sequences, FiniteSets, Bags, TLC

VARIABLES
    store,      \* the persisted subscription row of the installation
    queue,      \* queues.installation: a bag of the options of the waiting jobs
    jobs,       \* one record per worker: the execution of processInstallation it runs
    dups,       \* duplicate deliveries made so far (the queue is at-least-once)
    notified,   \* calls of jiraClient.devinfo.migration.complete made so far
    faults,     \* outside events so far: errors of the collaborators, removal of the row
    selIn,      \* getNextTask taken alone: the progress state it is applied to
    selOut,     \* getNextTask taken alone: the results of its calls, in order
    exIn,       \* execute taken alone: the fetcher's behaviour, page size by page size
    exOut,      \* execute taken alone: <<>> or <<what the call did>>
    mw          \* the middleware taken alone: the wrapped handler and the job it was given

vars == <<store, queue, jobs, dups, notified, faults, selIn, selOut, exIn, exOut, mw>>

----------------------------------------------------------------------------
(* Bounds of the model *)

\* items (edges) the source host holds for each (repository, task type)
MaxItems == 2
\* events from outside the engine in one run: an error raised by a
\* collaborator, a fallback to a smaller page size, the installation's removal
MaxFaults == 1
\* workers that may run processInstallation at the same time
MaxJobs == 2
\* deliveries of a job that leave it in the queue (at-least-once delivery)
MaxDup == 1
\* repositories of the progress states getNextTask is applied to on its own
MaxSelRepos == 3
\* calls of getNextTask on one progress state
MaxSelCalls == 2
\* awaits of the inner handler before its promise settles, when the middleware
\* is taken alone
MaxAwaits == 2

----------------------------------------------------------------------------
(* Optional values: <<>> is undefined (or NaN), <<v>> is the value v *)

None == <<>>
Some(v) == <<v>>

----------------------------------------------------------------------------
(* Task catalog *)

taskTypes == <<"pull", "branch", "commit">>

TaskSet == {taskTypes[k] : k \in 1..Len(taskTypes)}

----------------------------------------------------------------------------
(* Task selection *)

\* the number of repositories whose three statuses are all 'complete'
updateNumberOfReposSynced(repos) ==
    Cardinality({id \in DOMAIN repos :
        /\ repos[id].status["pull"] = "complete"
        /\ repos[id].status["branch"] = "complete"
        /\ repos[id].status["commit"] = "complete"})

\* Object.entries over integer-like keys: ascending numeric order of the ids
RECURSIVE entries(_)
entries(ids) ==
    IF ids = {} THEN <<>>
    ELSE LET m == CHOOSE x \in ids : \A y \in ids : x <= y
         IN  <<m>> \o entries(ids \ {m})

\* the comparator with its operands swapped: oldest first
compareReposAscending(repos, a, b) == repos[a].updated_at - repos[b].updated_at

\* the comparator of sortedRepos: (a, b) => b.updated_at - a.updated_at
compareRepos(repos, a, b) == repos[b].updated_at - repos[a].updated_at

\* Array.prototype.sort is stable: x goes after every element that does not
\* compare greater than it
RECURSIVE insertSorted(_, _, _)
insertSorted(repos, sorted, x) ==
    IF sorted = <<>> THEN <<x>>
    ELSE IF compareRepos(repos, Head(sorted), x) <= 0
         THEN <<Head(sorted)>> \o insertSorted(repos, Tail(sorted), x)
         ELSE <<x>> \o sorted

RECURSIVE sortFrom(_, _, _)
sortFrom(repos, sorted, rest) ==
    IF rest = <<>> THEN sorted
    ELSE sortFrom(repos, insertSorted(repos, sorted, Head(rest)), Tail(rest))

sortedRepos(repos) == sortFrom(repos, <<>>, entries(DOMAIN repos))

\* the search that leaves out the last task type of the catalog
RECURSIVE findTaskButLast(_, _)
findTaskButLast(repoData, k) ==
    IF k >= Len(taskTypes) THEN 0
    ELSE IF repoData.status[taskTypes[k]] # "complete" THEN k
         ELSE findTaskButLast(repoData, k + 1)

\* taskTypes.find(taskType => repoData[`${taskType}Status`] !== 'complete'):
\* the index of the first such task type from k on, 0 when there is none
RECURSIVE findTask(_, _)
findTask(repoData, k) ==
    IF k > Len(taskTypes) THEN 0
    ELSE IF repoData.status[taskTypes[k]] # "complete" THEN k
         ELSE findTask(repoData, k + 1)

NoTask == [found |-> FALSE, task |-> "", repositoryId |-> 0, cursor |-> 0]

RECURSIVE nextTaskFrom(_, _)
nextTaskFrom(repos, order) ==
    IF order = <<>> THEN NoTask
    ELSE LET repositoryId == Head(order)
             k == findTask(repos[repositoryId], 1)
         IN  IF k = 0 THEN nextTaskFrom(repos, Tail(order))
             ELSE [found |-> TRUE,
                   task |-> taskTypes[k],
                   repositoryId |-> repositoryId,
                   cursor |-> repos[repositoryId].cursor[taskTypes[k]]]

\* the value getNextTask resolves to (NoTask stands for undefined)
getNextTask(repos) == nextTaskFrom(repos, sortedRepos(repos))

----------------------------------------------------------------------------
(* Errors *)

\* An error value as the engine reads it:
\*   reset   : headers['x-ratelimit-reset'] in seconds, None without the header
\*   message : the phrases the message contains
\*   errors  : None without an errors list, else Some(the types listed)
ETIMEDOUT == "connect ETIMEDOUT"
ABUSE == "You have triggered an abuse detection mechanism"
MAX_NODE_LIMIT_EXCEEDED == "MAX_NODE_LIMIT_EXCEEDED"
NOT_FOUND == "NOT_FOUND"
FORBIDDEN == "FORBIDDEN"

\* x-ratelimit-reset values (seconds) and Date.now() values (ms) of the model
Resets == {2}
Nows == {1000, 2000, 3000}

Messages == {{}, {ETIMEDOUT}, {ABUSE}}

ErrorLists == {None, Some({MAX_NODE_LIMIT_EXCEEDED}), Some({NOT_FOUND}), Some({FORBIDDEN})}

Errors == [reset : {None} \cup {Some(t) : t \in Resets},
           message : Messages,
           errors : ErrorLists]

\* an error that lists NOT_FOUND thrown in place of the new Error
ExhaustedErrorNotFound ==
    [reset |-> None, message |-> {}, errors |-> Some({NOT_FOUND})]

\* new Error(`Error processing GraphQL query: ...`)
ExhaustedError == [reset |-> None, message |-> {}, errors |-> None]

\* an error ignored as soon as one of the listed types is an ignored one
handleGitHubErrorLenient(err) ==
    IF err.errors # None
    THEN Cardinality(err.errors[1] \cap {MAX_NODE_LIMIT_EXCEEDED}) # 0
    ELSE FALSE

\* the filter without its negation: the ignored types are the ones counted
handleGitHubErrorInverted(err) ==
    IF err.errors # None
    THEN Cardinality(err.errors[1] \cap {MAX_NODE_LIMIT_EXCEEDED}) = 0
    ELSE FALSE

\* handleGitHubError(err): TRUE when it returns (the error is ignored), FALSE
\* when it throws err again
handleGitHubError(err) ==
    IF err.errors # None
    THEN LET ignoredErrorTypes == {MAX_NODE_LIMIT_EXCEEDED}
             notIgnoredError == Cardinality(err.errors[1] \ ignoredErrorTypes)
         IN  notIgnoredError = 0
    ELSE FALSE

----------------------------------------------------------------------------
(* Execution of one task: the page-size fallback *)

PageSizes == <<20, 10, 5, 1>>

Min(a, b) == IF a < b THEN a ELSE b
Max(a, b) == IF a > b THEN a ELSE b

\* the edges a task handler returns from `cursor` at page size perPage, when
\* the source holds `items` edges: the cursors cursor+1 .. min(cursor+perPage, items)
fetchPage(items, cursor, perPage) ==
    [k \in 1..(Min(cursor + perPage, items) - cursor) |-> cursor + k]

\* What one call of the fetcher can do: return a page, with or without a
\* jiraPayload, or throw an error
Returns(jiraPayload) == [ok |-> TRUE, jiraPayload |-> jiraPayload, err |-> None]
Throws(err) == [ok |-> FALSE, jiraPayload |-> FALSE, err |-> Some(err)]

\* One call of the fetcher: behaviour[k] tells what the call at the k-th page
\* size does
pagedProcessor(behaviour, k, items, cursor) ==
    IF behaviour[k].ok
    THEN [ok |-> TRUE,
          edges |-> fetchPage(items, cursor, PageSizes[k]),
          jiraPayload |-> behaviour[k].jiraPayload,
          perPage |-> PageSizes[k],
          err |-> None]
    ELSE [ok |-> FALSE, edges |-> <<>>, jiraPayload |-> FALSE, perPage |-> 0,
          err |-> behaviour[k].err]

\* execute(): the loop over PageSizes from index k on; calls is the sequence
\* of page sizes the fetcher has been called with
RECURSIVE executeFrom(_, _, _, _, _)
executeFrom(behaviour, k, items, cursor, calls) ==
    IF k > Len(PageSizes)
    THEN [ok |-> FALSE, edges |-> <<>>, jiraPayload |-> FALSE, perPage |-> 0,
          err |-> Some(ExhaustedError), calls |-> calls]
    ELSE LET r == pagedProcessor(behaviour, k, items, cursor)
             called == Append(calls, PageSizes[k])
         IN  IF r.ok
             THEN [ok |-> TRUE, edges |-> r.edges, jiraPayload |-> r.jiraPayload,
                   perPage |-> r.perPage, err |-> None, calls |-> called]
             ELSE IF handleGitHubError(r.err[1])
                  THEN executeFrom(behaviour, k + 1, items, cursor, called)
                  ELSE [ok |-> FALSE, edges |-> <<>>, jiraPayload |-> FALSE,
                        perPage |-> 0, err |-> r.err, calls |-> called]

execute(behaviour, items, cursor) == executeFrom(behaviour, 1, items, cursor, <<>>)

----------------------------------------------------------------------------
(* Failure classification of the catch block *)

\* rateLimit = +(err.headers && err.headers['x-ratelimit-reset']);
\* delay = Math.max(Date.now() - rateLimit * 1000, 0): None is NaN
rateLimitDelay(err, now) ==
    IF err.reset = None THEN None
    ELSE Some(Max(now - err.reset[1] * 1000, 0))

isNotFoundError(err) ==
    /\ err.errors # None
    /\ Cardinality(err.errors[1] \cap {NOT_FOUND}) # 0

\* the row of the catch block that handles err at time now:
\* [row, delay] with row in "rateLimit", "timeout", "abuse", "notFound", "failed"
classify(err, now) ==
    LET delay == rateLimitDelay(err, now)
    IN  IF delay # None /\ delay[1] # 0
        THEN [row |-> "rateLimit", delay |-> delay[1]]
        ELSE IF ETIMEDOUT \in err.message
        THEN [row |-> "timeout", delay |-> 5000]
        ELSE IF ABUSE \in err.message
        THEN [row |-> "abuse", delay |-> 60000]
        ELSE IF isNotFoundError(err)
        THEN [row |-> "notFound", delay |-> 0]
        ELSE [row |-> "failed", delay |-> 0]

----------------------------------------------------------------------------
(* The progress store, the queue and the workers *)

\* the repositories of the installation and their updated_at
RepoIds == {1, 2}
UpdatedAt == [id \in RepoIds |-> id]

Workers == 1..MaxJobs

\* the progress the run starts from: the sync has completed these task types
Synced == [id \in RepoIds |-> IF id = 1 THEN {"pull"} ELSE {"pull", "branch"}]

InitRepos ==
    [id \in RepoIds |->
        [updated_at |-> UpdatedAt[id],
         status |-> [t \in TaskSet |-> IF t \in Synced[id] THEN "complete" ELSE "pending"],
         cursor |-> [t \in TaskSet |-> IF t \in Synced[id] THEN MaxItems ELSE 0]]]

\* the removal policies a triggering job may carry
NoOpts == [attempts |-> None, delay |-> None,
           removeOnComplete |-> FALSE, removeOnFail |-> FALSE]
TriggerOpts ==
    {[NoOpts EXCEPT !.removeOnComplete = TRUE],
     [NoOpts EXCEPT !.removeOnFail = TRUE]}

\* what the engine reads of job.opts: removeOnComplete and removeOnFail
removalPolicy(opts) ==
    [removeOnComplete |-> opts.removeOnComplete, removeOnFail |-> opts.removeOnFail]

\* Subscription.getSingleInstallation: the row, or null once it is deleted
getSingleInstallation == IF store.exists THEN Some(store) ELSE None

\* subscription.update(values) on the row, when it still exists
persist(row) == IF store.exists THEN row ELSE store

\* the source holds this many edges for every task type of every repository
Items(repositoryId, task) == MaxItems

\* a worker that runs nothing
Idle ==
    [pc |-> "idle", opts |-> removalPolicy(NoOpts), task |-> "", repositoryId |-> 0, cursor |-> 0,
     calls |-> <<>>, edges |-> <<>>, inCatch |-> FALSE, loaded |-> FALSE,
     complete |-> FALSE, err |-> None, now |-> None, thrownAt |-> "", row |-> "",
     added |-> <<>>, notifyErr |-> FALSE, markedFailed |-> FALSE, saved |-> FALSE,
     result |-> ""]

\* the execution has ended and its promise is about to settle
Settling == \E i \in Workers : jobs[i].pc = "done"

Resolved(job) == [job EXCEPT !.pc = "done", !.result = "resolved"]
Rejected(job, err, at) ==
    [job EXCEPT !.pc = "done", !.result = "rejected", !.err = Some(err), !.thrownAt = at]

----------------------------------------------------------------------------
(* Options of the jobs the engine adds to the queue *)

\* process.env.LIMITER_PER_INSTALLATION (unset)
LIMITER_PER_INSTALLATION == None

\* Number(process.env.LIMITER_PER_INSTALLATION) || 1000
limiterDelay ==
    IF LIMITER_PER_INSTALLATION = None \/ LIMITER_PER_INSTALLATION[1] = 0
    THEN 1000
    ELSE LIMITER_PER_INSTALLATION[1]

\* more data to get: attempts 3, the limiter's delay, the job's removal policy
moreDataOpts(opts) ==
    [attempts |-> Some(3), delay |-> Some(limiterDelay),
     removeOnComplete |-> opts.removeOnComplete, removeOnFail |-> opts.removeOnFail]

\* the options of the more-data branch used for the next task as well
nextTaskOptsDelayed(opts) ==
    [attempts |-> Some(3), delay |-> Some(1000),
     removeOnComplete |-> opts.removeOnComplete, removeOnFail |-> opts.removeOnFail]

\* another task remains: attempts 3, no delay, the job's removal policy
nextTaskOpts(opts) ==
    [attempts |-> Some(3), delay |-> None,
     removeOnComplete |-> opts.removeOnComplete, removeOnFail |-> opts.removeOnFail]

\* the re-enqueue of a failure row given the attempts of a follow-up job
retryOptsWithAttempts(opts, delay) ==
    [attempts |-> Some(3), delay |-> Some(delay),
     removeOnComplete |-> opts.removeOnComplete, removeOnFail |-> opts.removeOnFail]

\* a failure row re-enqueues: the delay, the job's removal policy, no attempts
retryOpts(opts, delay) ==
    [attempts |-> None, delay |-> Some(delay),
     removeOnComplete |-> opts.removeOnComplete, removeOnFail |-> opts.removeOnFail]

\* queues.installation.add(job.data, opts)
add(q, opts) == q (+) SetToBag({opts})

----------------------------------------------------------------------------
(* Inputs of the engine's steps *)

\* an ignored (capacity-exceeded) fetch error
CapacityError == [reset |-> None, message |-> {}, errors |-> Some({MAX_NODE_LIMIT_EXCEEDED})]

\* the fetcher throws CapacityError at the first k page sizes and does `final`
\* at the next one
Behaviour(k, final) ==
    [j \in 1..Len(PageSizes) |->
        IF j <= k THEN Throws(CapacityError)
        ELSE IF j = k + 1 THEN final
        ELSE Returns(FALSE)]

\* the fetcher's behaviours in a job: an error at the first page size, a page
\* at the first page size, a page at the last one after capacity-exceeded at
\* the others, or capacity-exceeded at every size
FetcherBehaviours ==
    {Behaviour(0, Throws(e)) : e \in Errors}
    \cup {Behaviour(k, Returns(b)) : k \in {0, Len(PageSizes) - 1}, b \in BOOLEAN}
    \cup {Behaviour(Len(PageSizes), Returns(FALSE))}

\* errors without headers or an errors list: what app.auth, the Jira client
\* and the store raise
PlainErrors == {e \in Errors : e.reset = None /\ e.errors = None}

----------------------------------------------------------------------------
(* processInstallation *)

\* The catch block, entered by worker i with err at time now
Caught(i, job, err, now, at) ==
    LET c == classify(err, now)
        j == [job EXCEPT !.err = Some(err),
                         !.now = IF err.reset = None THEN None ELSE Some(now),
                         !.thrownAt = at,
                         !.row = c.row]
    IN  IF c.row \in {"rateLimit", "timeout", "abuse"}
        THEN /\ queue' = add(queue, retryOpts(job.opts, c.delay))
             /\ jobs' = [jobs EXCEPT ![i] =
                    Resolved([j EXCEPT !.added = Append(@, retryOpts(job.opts, c.delay))])]
             /\ UNCHANGED <<store, notified>>
        ELSE IF c.row = "notFound"
        THEN /\ jobs' = [jobs EXCEPT ![i] =
                    [j EXCEPT !.pc = "update", !.edges = <<>>, !.inCatch = TRUE]]
             /\ UNCHANGED <<store, queue, notified>>
        ELSE /\ store' = persist([store EXCEPT !.syncStatus = "FAILED"])
             /\ jobs' = [jobs EXCEPT ![i] =
                    [j EXCEPT !.pc = "done", !.result = "rejected", !.markedFailed = TRUE]]
             /\ UNCHANGED <<queue, notified>>

\* A worker takes a job: load the subscription, authenticate, select the next
\* task and set syncStatus (lines 153-192)
ProcessInstallation(i) ==
    /\ ~Settling
    /\ jobs[i].pc = "idle"
    /\ \A k \in 1..(i - 1) : jobs[k].pc # "idle"
    /\ \E opts \in BagToSet(queue), dup \in BOOLEAN, auth \in {None} \cup {Some(e) : e \in PlainErrors} :
        /\ dup => dups < MaxDup
        /\ auth # None => faults < MaxFaults
        /\ faults' = IF auth # None THEN faults + 1 ELSE faults
        /\ dups' = IF dup THEN dups + 1 ELSE dups
        /\ queue' = IF dup THEN queue ELSE queue (-) SetToBag({opts})
        /\ LET job == [Idle EXCEPT !.opts = removalPolicy(opts)]
               subscription == getSingleInstallation
           IN  IF subscription = None
               THEN /\ auth = None
                    /\ jobs' = [jobs EXCEPT ![i] = Resolved(job)]
                    /\ UNCHANGED store
               ELSE IF auth # None
               THEN /\ jobs' = [jobs EXCEPT ![i] = Rejected(job, auth[1], "auth")]
                    /\ UNCHANGED store
               ELSE LET repos == subscription[1].repos
                        synced == updateNumberOfReposSynced(repos)
                        nextTask == getNextTask(repos)
                    IN  IF ~nextTask.found
                        THEN /\ store' = [store EXCEPT !.numberOfSyncedRepos = synced,
                                                       !.syncStatus = "COMPLETE"]
                             /\ jobs' = [jobs EXCEPT ![i] = Resolved(job)]
                        ELSE /\ store' = [store EXCEPT !.numberOfSyncedRepos = synced,
                                                       !.syncStatus = "ACTIVE"]
                             /\ jobs' = [jobs EXCEPT ![i] =
                                    [job EXCEPT !.pc = "execute",
                                                !.task = nextTask.task,
                                                !.repositoryId = nextTask.repositoryId,
                                                !.cursor = nextTask.cursor]]
    /\ UNCHANGED <<notified, selIn, selOut, exIn, exOut, mw>>

\* The try block up to updateJobStatus: execute() and the submission to Jira,
\* and the catch block for what they throw (lines 194-257, 259-316)
Execute(i) ==
    /\ ~Settling
    /\ jobs[i].pc = "execute"
    /\ \E behaviour \in FetcherBehaviours,
          submit \in {None} \cup {Some(e) : e \in PlainErrors},
          now \in Nows :
        LET job == jobs[i]
            fault == behaviour # Behaviour(0, Returns(behaviour[1].jiraPayload)) \/ submit # None
            r == execute(behaviour, Items(job.repositoryId, job.task), job.cursor)
            fetched == [job EXCEPT !.calls = r.calls]
        IN  /\ fault => faults < MaxFaults
            /\ faults' = IF fault THEN faults + 1 ELSE faults
            /\ dups' = dups
            /\ IF ~r.ok
               THEN /\ submit = None
                    /\ Caught(i, fetched, r.err[1], now, "fetch")
               ELSE IF r.jiraPayload /\ submit # None
               THEN Caught(i, fetched, submit[1], now, "submit")
               ELSE /\ submit = None
                    /\ now = CHOOSE n \in Nows : TRUE
                    /\ jobs' = [jobs EXCEPT ![i] =
                           [fetched EXCEPT !.pc = "update", !.edges = r.edges]]
                    /\ UNCHANGED <<store, queue, notified>>
    /\ UNCHANGED <<selIn, selOut, exIn, exOut, mw>>

----------------------------------------------------------------------------
(* updateJobStatus *)

\* the call without its try/catch: the error of the call is raised
migrationCompleteRaises(outcome) == outcome

\* try { await jiraClient.devinfo.migration.complete() } catch (err) { warn }
\* (lines 127-131): what the statement raises when the call ends with
\* `outcome` (None, or Some(the error the call throws)); the error is logged
\* and nothing is raised
migrationComplete(outcome) == None

\* the two statuses the other way round
taskStatusInverted(edges) == IF Len(edges) > 0 THEN "complete" ELSE "pending"

\* the status without the test of edges.length
taskStatusPending(edges) == "pending"

\* const status = edges.length > 0 ? 'pending' : 'complete'
taskStatus(edges) == IF Len(edges) > 0 THEN "pending" ELSE "complete"

\* the cursor the page was fetched from instead of the cursor of its last edge
cursorBeforePage(edges) == edges[1] - 1

\* the cursor of the first edge instead of the last
firstCursor(edges) == edges[1]

\* edges[edges.length - 1].cursor
lastCursor(edges) == edges[Len(edges)]

\* the status set on every task type of the repository instead of one
setReposEveryTask(repos, job) ==
    [repos EXCEPT ![job.repositoryId].status = [t \in TaskSet |-> taskStatus(job.edges)]]

\* the cursor set back to the start when there are no edges
setReposClearingCursor(repos, job) ==
    [repos EXCEPT ![job.repositoryId].status[job.task] = taskStatus(job.edges),
                  ![job.repositoryId].cursor[job.task] =
                        IF Len(job.edges) > 0 THEN lastCursor(job.edges) ELSE 0]

\* the repositories of the subscription instance after subscription.set of
\* the task's status (and of its cursor when there are edges)
setRepos(repos, job) ==
    LET withStatus == [repos EXCEPT ![job.repositoryId].status[job.task] = taskStatus(job.edges)]
    IN  IF Len(job.edges) > 0
        THEN [withStatus EXCEPT ![job.repositoryId].cursor[job.task] = lastCursor(job.edges)]
        ELSE withStatus

\* subscription.save(): the row with what this execution has set
savedRow(row, job) ==
    [row EXCEPT !.repos = setRepos(row.repos, job),
                !.syncStatus = IF job.complete THEN "COMPLETE" ELSE @]

\* updateJobStatus up to subscription.save(): re-load the subscription, set
\* the status (and cursor), and enqueue the follow-up job or close the sync
\* (lines 63-143)
UpdateJobStatus(i) ==
    /\ ~Settling
    /\ jobs[i].pc = "update"
    /\ dups' = dups
    /\ \E notify \in {None} \cup {Some(e) : e \in PlainErrors} :
        LET job == jobs[i]
            subscription == getSingleInstallation
        IN  IF subscription = None
            THEN /\ notify = None
                 /\ jobs' = [jobs EXCEPT ![i] = Resolved(job)]
                 /\ UNCHANGED <<store, queue, notified, faults>>
            ELSE LET repos == setRepos(subscription[1].repos, job)
                     loaded == [job EXCEPT !.pc = "save", !.loaded = TRUE]
                 IN  IF Len(job.edges) > 0
                     THEN /\ notify = None
                          /\ queue' = add(queue, moreDataOpts(job.opts))
                          /\ jobs' = [jobs EXCEPT ![i] =
                                 [loaded EXCEPT !.added = Append(@, moreDataOpts(job.opts))]]
                          /\ UNCHANGED <<store, notified, faults>>
                     ELSE /\ store' = [store EXCEPT
                                 !.numberOfSyncedRepos = updateNumberOfReposSynced(repos)]
                          /\ IF ~getNextTask(repos).found
                             THEN /\ notify # None => faults < MaxFaults
                                  /\ faults' = IF notify # None THEN faults + 1 ELSE faults
                                  /\ notified' = notified + 1
                                  /\ UNCHANGED queue
                                  /\ LET raised == migrationComplete(notify)
                                         closed == [loaded EXCEPT !.complete = TRUE,
                                                                  !.notifyErr = notify # None]
                                     IN  jobs' = [jobs EXCEPT ![i] =
                                            IF raised = None THEN closed
                                            ELSE Rejected(closed, raised[1], "notify")]
                             ELSE /\ notify = None
                                  /\ queue' = add(queue, nextTaskOpts(job.opts))
                                  /\ jobs' = [jobs EXCEPT ![i] =
                                         [loaded EXCEPT !.added = Append(@, nextTaskOpts(job.opts))]]
                                  /\ UNCHANGED <<notified, faults>>
    /\ UNCHANGED <<selIn, selOut, exIn, exOut, mw>>

\* await subscription.save() (line 144); when it throws inside the try block
\* the catch block handles the error, inside the catch block it escapes
Save(i) ==
    /\ ~Settling
    /\ jobs[i].pc = "save"
    /\ \E outcome \in {None} \cup {Some(e) : e \in PlainErrors} :
        LET job == jobs[i]
        IN  /\ outcome # None => faults < MaxFaults
            /\ faults' = IF outcome # None THEN faults + 1 ELSE faults
            /\ dups' = dups
            /\ IF outcome = None
               THEN /\ store' = persist(savedRow(store, job))
                    /\ jobs' = [jobs EXCEPT ![i] = Resolved([job EXCEPT !.saved = store.exists])]
                    /\ UNCHANGED <<queue, notified>>
               ELSE IF job.inCatch
               THEN /\ jobs' = [jobs EXCEPT ![i] = Rejected(job, outcome[1], "save")]
                    /\ UNCHANGED <<store, queue, notified>>
               ELSE Caught(i, job, outcome[1], CHOOSE n \in Nows : TRUE, "save")
    /\ UNCHANGED <<selIn, selOut, exIn, exOut, mw>>

\* the promise of the execution settles and the worker is free again
Settle(i) ==
    /\ jobs[i].pc = "done"
    /\ jobs' = [jobs EXCEPT ![i] = Idle]
    /\ UNCHANGED <<store, queue, dups, notified, faults, selIn, selOut, exIn, exOut, mw>>

\* the installation is removed (outside the engine) during a sync
DeleteInstallation ==
    /\ ~Settling
    /\ store.exists
    /\ faults < MaxFaults
    /\ faults' = faults + 1
    /\ store' = [store EXCEPT !.exists = FALSE]
    /\ UNCHANGED <<queue, jobs, dups, notified, selIn, selOut, exIn, exOut, mw>>

----------------------------------------------------------------------------
(* The middleware around the job handler (worker/index.ts) *)

\* the jobs handed to the wrapped handler: job.id and job.attemptsMade
MwJobs == [id : {1, 2}, attemptsMade : 0..2]

\* what the inner handler's promise settles with: nothing (it resolves) or
\* the error it rejects with
MwOutcomes == {None} \cup {Some(e) : e \in PlainErrors}

\* no job has been handed to the wrapped handler
MwIdle ==
    [job |-> [id |-> 0, attemptsMade |-> 0], outcome |-> None, awaits |-> 0,
     inner |-> "idle", transaction |-> "none", newrelic |-> "idle",
     sentry |-> "idle", captured |-> None, thrown |-> None,
     event |-> "", unhandled |-> None]

\* job => newrelicMiddleware(jobHandler)(job): the background transaction is
\* started and its callback runs to `await jobHandler(job)`, which starts the
\* inner handler; the promise of the callback is neither returned nor
\* awaited, so that the promise of the async function resolves with nothing
newrelicMiddleware(m) ==
    [m EXCEPT !.transaction = "open", !.inner = "running", !.newrelic = "resolved"]

\* the callback of the transaction goes on after `await jobHandler(job)`:
\* finally transaction.end(), and its promise settles as the inner handler
\* did; no one holds that promise
transactionCallback(m) ==
    [m EXCEPT !.inner = IF m.outcome = None THEN "resolved" ELSE "rejected",
              !.transaction = "ended",
              !.unhandled = m.outcome]

\* sentryMiddleware(jobHandler)(job) up to `await jobHandler(job)`
sentryMiddleware(m) == [newrelicMiddleware(m) EXCEPT !.sentry = "awaiting"]

\* sentryMiddleware after the await: the promise of jobHandler(job) has
\* resolved, or it has rejected with err: captureException(err); throw err
sentryMiddlewareResumed(m, err) ==
    IF m.newrelic = "resolved"
    THEN [m EXCEPT !.sentry = "resolved"]
    ELSE [m EXCEPT !.sentry = "rejected", !.captured = err, !.thrown = err]

\* commonMiddleware(jobHandler) = sentryMiddleware(newrelicMiddleware(jobHandler))
commonMiddleware(m) == sentryMiddleware(m)

\* the queue hands a job to commonMiddleware(processInstallation(app, queues)):
\* the call runs without a break to the await of sentryMiddleware
MwProcess ==
    /\ mw.event = ""
    /\ \E job \in MwJobs, outcome \in MwOutcomes, awaits \in 1..MaxAwaits :
          mw' = commonMiddleware([mw EXCEPT !.job = job, !.outcome = outcome,
                                            !.awaits = awaits, !.event = "active"])
    /\ UNCHANGED <<store, queue, jobs, dups, notified, faults, selIn, selOut, exIn, exOut>>

\* the await of sentryMiddleware resumes: a microtask, which runs before any
\* I/O the inner handler waits for has completed
MwSentryResume ==
    /\ mw.sentry = "awaiting"
    /\ mw.newrelic # "idle"
    /\ mw' = sentryMiddlewareResumed(mw, mw.outcome)
    /\ UNCHANGED <<store, queue, jobs, dups, notified, faults, selIn, selOut, exIn, exOut>>

\* the promise of the wrapped handler has settled: the queue emits
\* 'completed' or 'failed'
MwQueueEvent ==
    /\ mw.event = "active"
    /\ mw.sentry \in {"resolved", "rejected"}
    /\ mw' = [mw EXCEPT !.event = IF mw.sentry = "resolved" THEN "completed" ELSE "failed"]
    /\ UNCHANGED <<store, queue, jobs, dups, notified, faults, selIn, selOut, exIn, exOut>>

\* the inner handler goes on after one of its awaits (the first one is the
\* load of the subscription)
MwInnerStep ==
    /\ mw.inner = "running"
    /\ mw.sentry # "awaiting"
    /\ mw.awaits > 0
    /\ mw' = [mw EXCEPT !.awaits = mw.awaits - 1]
    /\ UNCHANGED <<store, queue, jobs, dups, notified, faults, selIn, selOut, exIn, exOut>>

\* the promise of the inner handler settles and the callback of the
\* transaction goes on
MwInnerSettle ==
    /\ mw.inner = "running"
    /\ mw.awaits = 0
    /\ mw' = transactionCallback(mw)
    /\ UNCHANGED <<store, queue, jobs, dups, notified, faults, selIn, selOut, exIn, exOut>>

----------------------------------------------------------------------------
(* The engine *)

Init ==
    /\ store = [exists |-> TRUE, syncStatus |-> "PENDING",
                numberOfSyncedRepos |-> 0, repos |-> InitRepos]
    /\ \E opts \in TriggerOpts : queue = SetToBag({opts})
    /\ jobs = [i \in Workers |-> Idle]
    /\ dups = 0
    /\ faults = 0
    /\ notified = 0
    /\ selIn = InitRepos
    /\ selOut = <<>>
    /\ exIn = Behaviour(0, Returns(FALSE))
    /\ exOut = None
    /\ mw = MwIdle

Next ==
    \/ \E i \in Workers : ProcessInstallation(i)
    \/ \E i \in Workers : Execute(i)
    \/ \E i \in Workers : UpdateJobStatus(i)
    \/ \E i \in Workers : Save(i)
    \/ \E i \in Workers : Settle(i)
    \/ DeleteInstallation

Spec == Init /\ [][Next]_vars

\* The engine with one worker (CONCURRENT_WORKERS = 1) and a queue that
\* delivers every job once: the executions follow one another
NextSolo ==
    \/ ProcessInstallation(1) /\ dups' = dups
    \/ Execute(1)
    \/ UpdateJobStatus(1)
    \/ Save(1)
    \/ Settle(1)
    \/ DeleteInstallation

SpecSolo == Init /\ [][NextSolo]_vars

----------------------------------------------------------------------------
(* getNextTask taken alone *)

\* updated_at values of the progress states getNextTask is applied to
SelTimes == {1, 2}

\* the cursor stored for task type t of repository id: a different one for
\* every (id, t)
SelCursor(id, t) == Len(taskTypes) * id + (CHOOSE k \in 1..Len(taskTypes) : taskTypes[k] = t)

SelRepos ==
    {[id \in 1..MaxSelRepos |->
        [updated_at |-> at[id],
         status |-> st[id],
         cursor |-> [t \in TaskSet |-> SelCursor(id, t)]]] :
     at \in [1..MaxSelRepos -> SelTimes],
     st \in [1..MaxSelRepos -> [TaskSet -> {"pending", "complete"}]]}

EngineIdle ==
    /\ store = [exists |-> TRUE, syncStatus |-> "PENDING",
                numberOfSyncedRepos |-> 0, repos |-> InitRepos]
    /\ queue = EmptyBag
    /\ jobs = [i \in Workers |-> Idle]
    /\ dups = 0
    /\ notified = 0
    /\ faults = 0

InitSelect ==
    /\ EngineIdle
    /\ \E repos \in SelRepos : selIn = [numberOfSyncedRepos |-> 0, repos |-> repos]
    /\ selOut = <<>>
    /\ exIn = Behaviour(0, Returns(FALSE))
    /\ exOut = None
    /\ mw = MwIdle

\* one call getNextTask(subscription): it persists the number of synced
\* repositories and resolves to the next task
CallGetNextTask ==
    /\ Len(selOut) < MaxSelCalls
    /\ selIn' = [selIn EXCEPT !.numberOfSyncedRepos = updateNumberOfReposSynced(selIn.repos)]
    /\ selOut' = Append(selOut, getNextTask(selIn.repos))
    /\ UNCHANGED <<store, queue, jobs, dups, notified, faults, exIn, exOut, mw>>

NextSelect == CallGetNextTask

SpecSelect == InitSelect /\ [][NextSelect]_vars

----------------------------------------------------------------------------
(* execute taken alone *)

\* the errors the fetcher throws here: capacity-exceeded, an empty errors
\* list, a list with another type besides MAX_NODE_LIMIT_EXCEEDED, another
\* type alone, and an error without an errors list
ExErrors ==
    {[reset |-> None, message |-> {}, errors |-> l] :
        l \in {Some({MAX_NODE_LIMIT_EXCEEDED}), Some({}),
               Some({MAX_NODE_LIMIT_EXCEEDED, NOT_FOUND}), Some({FORBIDDEN}), None}}

ExOutcomes == {Returns(TRUE), Returns(FALSE)} \cup {Throws(e) : e \in ExErrors}

InitExecute ==
    /\ EngineIdle
    /\ selIn = InitRepos
    /\ selOut = <<>>
    /\ \E behaviour \in [1..Len(PageSizes) -> ExOutcomes], items \in 0..MaxItems :
         \E cursor \in 0..items :
            exIn = [behaviour |-> behaviour, items |-> items, cursor |-> cursor]
    /\ exOut = None
    /\ mw = MwIdle

\* one call of execute()
CallExecute ==
    /\ exOut = None
    /\ exOut' = Some(execute(exIn.behaviour, exIn.items, exIn.cursor))
    /\ UNCHANGED <<store, queue, jobs, dups, notified, faults, selIn, selOut, exIn, mw>>

NextExecute == CallExecute

SpecExecute == InitExecute /\ [][NextExecute]_vars

\* The one-worker engine under fair scheduling: a job that waits is
\* eventually delivered to the worker when it is free, and an execution that
\* has started goes on to its next step until its promise settles
Fairness ==
    /\ WF_vars(ProcessInstallation(1) /\ dups' = dups)
    /\ WF_vars(Execute(1))
    /\ WF_vars(UpdateJobStatus(1))
    /\ WF_vars(Save(1))
    /\ WF_vars(Settle(1))

SpecSoloFair == Init /\ [][NextSolo]_vars /\ Fairness

----------------------------------------------------------------------------
(* The middleware taken alone *)

InitWorker ==
    /\ EngineIdle
    /\ selIn = InitRepos
    /\ selOut = <<>>
    /\ exIn = Behaviour(0, Returns(FALSE))
    /\ exOut = None
    /\ mw = MwIdle

NextWorker ==
    \/ MwProcess
    \/ MwSentryResume
    \/ MwQueueEvent
    \/ MwInnerStep
    \/ MwInnerSettle

SpecWorker == InitWorker /\ [][NextWorker]_vars

----------------------------------------------------------------------------
(* updateJobStatus applied more than once with the same result *)

\* the progress states updateJobStatus is applied to: any statuses, the
\* cursor of a complete task at the end of its items
TwiceRepos ==
    {[id \in RepoIds |->
        [updated_at |-> UpdatedAt[id],
         status |-> st[id],
         cursor |-> [t \in TaskSet |-> IF st[id][t] = "complete" THEN MaxItems ELSE 0]]] :
     st \in [RepoIds -> [TaskSet -> {"pending", "complete"}]]}

\* every worker is about to call updateJobStatus(..., edges = [], task,
\* repositoryId) for the same task of the same repository
InitTwice ==
    /\ \E repos \in TwiceRepos, syncStatus \in {"ACTIVE", "COMPLETE", "FAILED"} :
         store = [exists |-> TRUE, syncStatus |-> syncStatus,
                  numberOfSyncedRepos |-> updateNumberOfReposSynced(repos),
                  repos |-> repos]
    /\ \E repositoryId \in RepoIds, task \in TaskSet :
         jobs = [i \in Workers |->
                    [Idle EXCEPT !.pc = "update",
                                 !.opts = removalPolicy([NoOpts EXCEPT !.removeOnFail = TRUE]),
                                 !.task = task,
                                 !.repositoryId = repositoryId,
                                 !.cursor = store.repos[repositoryId].cursor[task],
                                 !.calls = <<PageSizes[1]>>]]
    /\ queue = EmptyBag
    /\ dups = 0
    /\ faults = 0
    /\ notified = 0
    /\ selIn = InitRepos
    /\ selOut = <<>>
    /\ exIn = Behaviour(0, Returns(FALSE))
    /\ exOut = None
    /\ mw = MwIdle

NextTwice ==
    \/ \E i \in Workers : UpdateJobStatus(i)
    \/ \E i \in Workers : Save(i)
    \/ \E i \in Workers : Settle(i)

SpecTwice == InitTwice /\ [][NextTwice]_vars

----------------------------------------------------------------------------
(* Properties of getNextTask (SpecSelect) *)

SelOpen(repos) == {id \in DOMAIN repos : \E t \in TaskSet : repos[id].status[t] # "complete"}

\* repository a is visited before repository b: later updated_at first, the
\* smaller identifier first among equals
SelBefore(repos, a, b) ==
    \/ repos[a].updated_at > repos[b].updated_at
    \/ repos[a].updated_at = repos[b].updated_at /\ a < b

\* C7: every call of getNextTask on a progress state returns, for the first
\* repository in descending updated_at order (ties by identifier) that has a
\* task type not complete, the first such task type in the order pull,
\* branch, commit with its stored cursor; it returns no task exactly when
\* every repository has the three task types complete; and the calls on the
\* same progress state return the same value.
C7_NextTaskSelection ==
    \A n \in 1..Len(selOut) :
        LET out == selOut[n]
            repos == selIn.repos
            open == SelOpen(repos)
        IN  /\ out.found <=> open # {}
            /\ out.found =>
                /\ out.repositoryId \in open
                /\ \A id \in open \ {out.repositoryId} : SelBefore(repos, out.repositoryId, id)
                /\ \E k \in 1..3 :
                    /\ <<"pull", "branch", "commit">>[k] = out.task
                    /\ repos[out.repositoryId].status[out.task] # "complete"
                    /\ \A j \in 1..(k - 1) :
                        repos[out.repositoryId].status[<<"pull", "branch", "commit">>[j]] = "complete"
                /\ out.cursor = repos[out.repositoryId].cursor[out.task]
            /\ out = selOut[1]

\* two calls were made on a state where repositories 2 and 3 are the most
\* recently updated, equally, and both have work left: repository 2 is
\* chosen, with its second task type
C7_Witness ==
    /\ Len(selOut) = 2
    /\ selIn.repos[1].updated_at < selIn.repos[2].updated_at
    /\ selIn.repos[2].updated_at = selIn.repos[3].updated_at
    /\ SelOpen(selIn.repos) = {1, 2, 3}
    /\ selOut[2].found
    /\ selOut[2].repositoryId = 2
    /\ selOut[2].task = "branch"

----------------------------------------------------------------------------
(* Properties of execute (SpecExecute) *)

\* the call of the fetcher at the k-th page size fails with capacity-exceeded
CapacityExceeded(outcome) ==
    /\ ~outcome.ok
    /\ outcome.err[1].errors = Some({MAX_NODE_LIMIT_EXCEEDED})

\* C8: if the fetcher fails with capacity-exceeded at the first k of the page
\* sizes 20, 10, 5, 1 and succeeds at the next one, execute calls it exactly
\* k+1 times, at the first k+1 sizes in that order, and returns the result of
\* the last call.
C8_PageSizeFallback ==
    exOut # None =>
        \A k \in 0..3 :
            ( /\ \A j \in 1..k : CapacityExceeded(exIn.behaviour[j])
              /\ exIn.behaviour[k + 1].ok )
            => LET out == exOut[1]
                   perPage == <<20, 10, 5, 1>>[k + 1]
               IN  /\ out.ok
                   /\ Len(out.calls) = k + 1
                   /\ out.calls = SubSeq(<<20, 10, 5, 1>>, 1, k + 1)
                   /\ out.perPage = perPage
                   /\ out.edges = fetchPage(exIn.items, exIn.cursor, perPage)
                   /\ out.jiraPayload = exIn.behaviour[k + 1].jiraPayload

\* capacity-exceeded at 20 and 10, a page of one edge at 5: three calls
C8_Witness ==
    /\ exOut # None
    /\ CapacityExceeded(exIn.behaviour[1])
    /\ CapacityExceeded(exIn.behaviour[2])
    /\ exIn.behaviour[3].ok
    /\ exOut[1].calls = <<20, 10, 5>>
    /\ Len(exOut[1].edges) = 1

----------------------------------------------------------------------------
(* Properties of the engine (Spec) *)

\* the catch block of worker i's execution has handled an error
HasCaught(i) == jobs[i].row # ""

\* C1: when the catch block handles an error whose x-ratelimit-reset is T
\* (seconds) at time N (ms): if T*1000 > N the job is re-enqueued with delay
\* T*1000 - N and the installation is not marked FAILED; if T*1000 <= N the
\* rate-limit row does not handle the error.
C1_RateLimitDelay ==
    \A i \in Workers :
        (HasCaught(i) /\ jobs[i].err[1].reset # None) =>
            LET job == jobs[i]
                T == job.err[1].reset[1]
                N == job.now[1]
            IN  IF T * 1000 > N
                THEN /\ job.row = "rateLimit"
                     /\ job.pc = "done"
                     /\ job.result = "resolved"
                     /\ ~job.markedFailed
                     /\ job.added # <<>>
                     /\ job.added[Len(job.added)] =
                            [attempts |-> None, delay |-> Some(T * 1000 - N),
                             removeOnComplete |-> job.opts.removeOnComplete,
                             removeOnFail |-> job.opts.removeOnFail]
                ELSE job.row # "rateLimit"

\* C2: the persisted cursor of a task type of a repository never moves to an
\* earlier position, whatever the interleaving of the executions.
C2_CursorMonotonic ==
    [][\A id \in RepoIds, t \in TaskSet :
        store'.repos[id].cursor[t] >= store.repos[id].cursor[t]]_vars

\* C3: an execution that starts when syncStatus is FAILED leaves it FAILED
\* and does not go on to fetch.
C3_FailedIsTerminal ==
    [][\A i \in Workers :
        (store.syncStatus = "FAILED" /\ jobs[i].pc = "idle" /\ jobs'[i].pc # "idle")
            => (store'.syncStatus = "FAILED" /\ jobs'[i].pc # "execute")]_vars

\* the error matches one of the recoverable rows: a rate-limit reset in the
\* future, a network timeout, abuse detection, repository not found
Recoverable(job) ==
    LET err == job.err[1]
    IN  \/ err.reset # None /\ job.now # None /\ err.reset[1] * 1000 > job.now[1]
        \/ ETIMEDOUT \in err.message
        \/ ABUSE \in err.message
        \/ err.errors # None /\ NOT_FOUND \in err.errors[1]

\* C4: an execution rejects only with an error that matches none of the
\* recoverable rows, whatever step raised it.
C4_RejectsOnlyOtherErrors ==
    \A i \in Workers :
        (jobs[i].pc = "done" /\ jobs[i].result = "rejected") => ~Recoverable(jobs[i])

\* C5: an execution that rejects has set syncStatus to FAILED before.
C5_RejectionMarksFailed ==
    \A i \in Workers :
        (jobs[i].pc = "done" /\ jobs[i].result = "rejected") => jobs[i].markedFailed

\* C6: an execution whose submission to Jira fails marks the installation
\* FAILED and rejects, and enqueues no job.
C6_SubmissionFailurePropagates ==
    \A i \in Workers :
        (jobs[i].pc = "done" /\ jobs[i].thrownAt = "submit") =>
            /\ jobs[i].result = "rejected"
            /\ jobs[i].markedFailed
            /\ jobs[i].added = <<>>

\* worker i takes the step that ends updateJobStatus with a successful save
\* of an existing row
Saves(i) == jobs[i].pc = "save" /\ jobs'[i].pc = "done" /\ jobs'[i].saved

\* C9: when the fetch raises a not-found error that no earlier row handles,
\* the execution (the row still being there and the save succeeding) sets the
\* status of that task type of that repository to complete, changes nothing
\* else of the progress state, does not mark the installation FAILED and
\* resolves; and nothing but a failing save makes such an execution reject.
C9_NotFoundCompletesTask ==
    [][\A i \in Workers :
        LET job == jobs[i]
        IN  /\ (job.row = "notFound" /\ job.thrownAt = "fetch" /\ Saves(i)) =>
                /\ store'.repos =
                     [store.repos EXCEPT ![job.repositoryId].status[job.task] = "complete"]
                /\ store'.syncStatus \in {store.syncStatus, "COMPLETE"}
                /\ store'.syncStatus # "FAILED"
                /\ jobs'[i].result = "resolved"
                /\ ~jobs'[i].markedFailed
            /\ (job.row = "notFound" /\ job.thrownAt = "fetch" /\ jobs'[i].pc = "done"
                    /\ jobs'[i].result = "rejected") => jobs'[i].thrownAt = "save"]_vars

\* a not-found error on the branch task of repository 1, whose commit task
\* is still pending, has been handled and saved
C9_Witness ==
    \E i \in Workers :
        /\ jobs[i].pc = "done"
        /\ jobs[i].row = "notFound"
        /\ jobs[i].thrownAt = "fetch"
        /\ jobs[i].saved
        /\ jobs[i].repositoryId = 1
        /\ jobs[i].task = "branch"
        /\ store.repos[1].status["branch"] = "complete"
        /\ store.repos[1].status["commit"] = "pending"

\* C10: when an execution that fetched edges ends with a successful save,
\* the persisted status of the task is pending, its persisted cursor is the
\* cursor of the last edge, and the execution has enqueued exactly one job,
\* with delay 1000, attempts 3 and the removal policy of its own job.
C10_MoreDataReenqueues ==
    \A i \in Workers :
        LET job == jobs[i]
        IN  (job.pc = "done" /\ job.saved /\ ~job.inCatch /\ Len(job.edges) > 0) =>
                /\ job.result = "resolved"
                /\ store.repos[job.repositoryId].status[job.task] = "pending"
                /\ store.repos[job.repositoryId].cursor[job.task] = job.edges[Len(job.edges)]
                /\ job.added = <<[attempts |-> Some(3), delay |-> Some(1000),
                                  removeOnComplete |-> job.opts.removeOnComplete,
                                  removeOnFail |-> job.opts.removeOnFail]>>

\* a page of two edges was fetched and saved by a job that is removed on
\* failure, not on completion
C10_Witness ==
    \E i \in Workers :
        /\ jobs[i].pc = "done"
        /\ jobs[i].saved
        /\ ~jobs[i].inCatch
        /\ Len(jobs[i].edges) = 2
        /\ jobs[i].opts.removeOnFail
        /\ ~jobs[i].opts.removeOnComplete
        /\ store.repos[jobs[i].repositoryId].cursor[jobs[i].task] = 2

----------------------------------------------------------------------------
(* Properties of updateJobStatus within an execution *)

\* the execution of worker i has ended after a fetch that returned no edges
\* and a successful save, another task being left when it re-loaded the row
EndedWithTaskLeft(i) ==
    /\ jobs[i].pc = "done"
    /\ jobs[i].saved
    /\ jobs[i].row = ""
    /\ jobs[i].edges = <<>>
    /\ ~jobs[i].complete

C12_LastTaskCompletesSync ==
    [][\A i \in Workers :
        LET job == jobs[i]
        IN  /\ (job.pc = "update" /\ job.row = "" /\ jobs'[i].complete) =>
                /\ notified' = notified + 1
                /\ queue' = queue
                /\ jobs'[i].pc = "save"
            /\ (job.row = "" /\ job.complete /\ Saves(i)) =>
                /\ job.edges = <<>>
                /\ store'.syncStatus = "COMPLETE"
                /\ store'.repos[job.repositoryId].status[job.task] = "complete"
                /\ jobs'[i].result = "resolved"
                /\ jobs'[i].added = <<>>]_vars

\* the last task was found exhausted, the migration-complete call failed and
\* the execution has still saved COMPLETE and resolved
C12_Witness ==
    \E i \in Workers :
        /\ jobs[i].pc = "done"
        /\ jobs[i].row = ""
        /\ jobs[i].complete
        /\ jobs[i].notifyErr
        /\ jobs[i].saved
        /\ jobs[i].result = "resolved"
        /\ notified = 1
        /\ store.syncStatus = "COMPLETE"
        /\ getNextTask(store.repos) = NoTask

\* C13 as the spec states it: updateJobStatus reaches subscription.save() on
\* every path before it returns, the exit for a removed installation
\* included.
C13_SavesOnEveryPath ==
    [][\A i \in Workers :
        (jobs[i].pc = "update" /\ jobs'[i] # jobs[i]) => jobs'[i].pc = "save"]_vars

\* C13, as the code has it: when the re-loaded installation exists,
\* updateJobStatus goes on to subscription.save(), and a save that succeeds
\* persists the status, the cursor of the last edge and COMPLETE that it set
\* on the instance; when the installation no longer exists it returns at
\* once without saving: nothing is enqueued, written or raised.
C13_SavesUnlessRemoved ==
    [][\A i \in Workers :
        LET job == jobs[i]
        IN  /\ (job.pc = "update" /\ jobs'[i] # job /\ store.exists) =>
                jobs'[i].pc = "save"
            /\ (job.pc = "update" /\ jobs'[i] # job /\ ~store.exists) =>
                /\ jobs'[i] = [job EXCEPT !.pc = "done", !.result = "resolved"]
                /\ store' = store
                /\ queue' = queue
                /\ notified' = notified
            /\ Saves(i) =>
                /\ store'.repos[job.repositoryId].status[job.task] =
                        IF job.edges = <<>> THEN "complete" ELSE "pending"
                /\ job.edges # <<>> =>
                        store'.repos[job.repositoryId].cursor[job.task] = job.edges[Len(job.edges)]
                /\ job.complete => store'.syncStatus = "COMPLETE"]_vars

\* an execution fetched a page, found the installation removed when it
\* re-loaded it, and has returned without enqueueing anything
C13_Witness ==
    \E i \in Workers :
        /\ jobs[i].pc = "done"
        /\ jobs[i].result = "resolved"
        /\ jobs[i].row = ""
        /\ Len(jobs[i].calls) > 0
        /\ Len(jobs[i].edges) > 0
        /\ ~jobs[i].loaded
        /\ jobs[i].added = <<>>
        /\ ~store.exists
        /\ store.repos[jobs[i].repositoryId].status[jobs[i].task] = "pending"

----------------------------------------------------------------------------
(* Properties of updateJobStatus applied again (SpecTwice) *)

\* C14: a step of updateJobStatus called with no edges for a task whose
\* persisted status is complete (the re-load and what follows it, or the save
\* that succeeds) leaves that status complete and its cursor unchanged, and
\* leaves syncStatus COMPLETE when it was COMPLETE.
C14_UpdateIdempotent ==
    [][\A i \in Workers :
        LET job == jobs[i]
            applies == \/ job.pc = "update" /\ jobs'[i] # job
                       \/ Saves(i)
        IN  (/\ applies
             /\ job.edges = <<>>
             /\ store.repos[job.repositoryId].status[job.task] = "complete") =>
                /\ store'.repos[job.repositoryId].status[job.task] = "complete"
                /\ store'.repos[job.repositoryId].cursor[job.task] =
                        store.repos[job.repositoryId].cursor[job.task]
                /\ store.syncStatus = "COMPLETE" => store'.syncStatus = "COMPLETE"]_vars

\* one worker has applied updateJobStatus and is free again, another has
\* applied it after that with the same empty result: both found no task left
\* and the row is COMPLETE
C14_Witness ==
    \E i \in Workers, k \in Workers :
        /\ i # k
        /\ jobs[k] = Idle
        /\ jobs[i].pc = "done"
        /\ jobs[i].saved
        /\ jobs[i].edges = <<>>
        /\ jobs[i].complete
        /\ faults = 0
        /\ notified >= 2
        /\ store.syncStatus = "COMPLETE"
        /\ store.repos[jobs[i].repositoryId].status[jobs[i].task] = "complete"

----------------------------------------------------------------------------
(* Properties of a whole run *)

AllTasksComplete ==
    \A id \in RepoIds, t \in TaskSet : store.repos[id].status[t] = "complete"

\* no job is waiting and no worker is running one
Quiescent == queue = EmptyBag /\ \A i \in Workers : jobs[i].pc = "idle"

\* C15: in a run without errors in which every job is delivered once,
\* syncStatus is COMPLETE only when every task of every repository is
\* complete, the migration-complete notification is sent at most once, and
\* when the run has come to its end it has been sent once and syncStatus is
\* COMPLETE.
C15_CompletesOnceAtTheEnd ==
    (faults = 0 /\ dups = 0) =>
        /\ store.syncStatus = "COMPLETE" => AllTasksComplete
        /\ notified <= 1
        /\ notified = 1 => \A id \in RepoIds, t \in TaskSet :
                store.repos[id].cursor[t] = Items(id, t)
        /\ Quiescent => (notified = 1 /\ store.syncStatus = "COMPLETE")

\* the run has come to its end: both repositories done, one notification
C15_Witness ==
    /\ faults = 0
    /\ dups = 0
    /\ Quiescent
    /\ AllTasksComplete
    /\ notified = 1
    /\ store.syncStatus = "COMPLETE"
    /\ store.numberOfSyncedRepos = Cardinality(RepoIds)

----------------------------------------------------------------------------
(* Properties of the persisted task status *)

\* the execution of worker i has ended after its fetch returned a page and
\* updateJobStatus was called with it; the installation still exists
EndedAfterFetch(i) ==
    /\ jobs[i].pc = "done"
    /\ Len(jobs[i].calls) > 0
    /\ jobs[i].thrownAt \in {"", "save"}
    /\ ~jobs[i].inCatch
    /\ store.exists

C17_CompleteNeverReopened ==
    [][\A id \in RepoIds, t \in TaskSet :
        store.repos[id].status[t] = "complete" =>
            store'.repos[id].status[t] = "complete"]_vars

----------------------------------------------------------------------------
(* Properties of the failure rows *)

\* the error recorded for worker i is the one its catch block was entered
\* with (not an error raised later, inside the catch block, by the save of the
\* not-found row)
CaughtIt(i) == HasCaught(i) /\ ~(jobs[i].inCatch /\ jobs[i].thrownAt = "save")

\* the error worker i has caught carries no rate-limit reset, or one that is
\* exactly now: the rate-limit row does not apply to it
NoRateLimit(i) ==
    \/ jobs[i].err[1].reset = None
    \/ jobs[i].err[1].reset[1] * 1000 = jobs[i].now[1]

----------------------------------------------------------------------------
(* Properties of execute: errors that end the fallback (SpecExecute) *)

\* the call fails with an error that has no errors list, or that lists an
\* error of another type than MAX_NODE_LIMIT_EXCEEDED
OtherFetchError(outcome) ==
    /\ ~outcome.ok
    /\ \/ outcome.err[1].errors = None
       \/ \E type \in outcome.err[1].errors[1] : type # "MAX_NODE_LIMIT_EXCEEDED"

\* C19: when a call of the fetcher fails with an error that is not
\* capacity-exceeded, execute throws that error and the call is its last one:
\* the fetcher is not called at any smaller page size.
C19_OtherErrorPropagates ==
    exOut # None =>
        LET out == exOut[1]
        IN  \A k \in 1..Len(out.calls) :
                OtherFetchError(exIn.behaviour[k]) =>
                    /\ Len(out.calls) = k
                    /\ out.calls = SubSeq(<<20, 10, 5, 1>>, 1, k)
                    /\ ~out.ok
                    /\ out.err = exIn.behaviour[k].err
                    /\ out.edges = <<>>

\* capacity-exceeded at 20, then an error that lists MAX_NODE_LIMIT_EXCEEDED
\* and NOT_FOUND at 10: two calls, although size 5 would have returned a page
C19_Witness ==
    /\ exOut # None
    /\ CapacityExceeded(exIn.behaviour[1])
    /\ ~exIn.behaviour[2].ok
    /\ exIn.behaviour[2].err[1].errors = Some({"MAX_NODE_LIMIT_EXCEEDED", "NOT_FOUND"})
    /\ exIn.behaviour[3].ok
    /\ exOut[1].calls = <<20, 10>>
    /\ exOut[1].err = exIn.behaviour[2].err

----------------------------------------------------------------------------
(* Properties of the exhausted fallback within an execution *)

\* C20: an execution whose fetch fails after the fetcher was called at all
\* four page sizes 20, 10, 5, 1 (capacity-exceeded at each) ends with the
\* exhausted-fallback error, which no recoverable row handles: syncStatus
\* becomes FAILED, the execution rejects with that error, nothing is
\* enqueued and no status or cursor of the progress state changes.
C20_ExhaustedFallbackFails ==
    [][\A i \in Workers :
        (/\ jobs[i].pc = "execute"
         /\ jobs'[i].thrownAt = "fetch"
         /\ Len(jobs'[i].calls) >= 4) =>
            /\ jobs'[i].calls = <<20, 10, 5, 1>>
            /\ jobs'[i].err = Some([reset |-> None, message |-> {}, errors |-> None])
            /\ jobs'[i].row = "failed"
            /\ jobs'[i].pc = "done"
            /\ jobs'[i].result = "rejected"
            /\ jobs'[i].markedFailed
            /\ jobs'[i].added = <<>>
            /\ queue' = queue
            /\ store'.repos = store.repos
            /\ store.exists => store'.syncStatus = "FAILED"]_vars

\* the branch task of repository 1 could not be fetched at any page size:
\* the installation is FAILED, its progress as before
C20_Witness ==
    \E i \in Workers :
        /\ jobs[i].pc = "done"
        /\ jobs[i].calls = <<20, 10, 5, 1>>
        /\ jobs[i].thrownAt = "fetch"
        /\ jobs[i].result = "rejected"
        /\ jobs[i].markedFailed
        /\ jobs[i].repositoryId = 1
        /\ jobs[i].task = "branch"
        /\ store.syncStatus = "FAILED"
        /\ store.repos[1].status["branch"] = "pending"
        /\ queue = EmptyBag

----------------------------------------------------------------------------
(* Properties of a run under fair scheduling (SpecSoloFair) *)

\* C21: in a run in which no collaborator ever raises an error and the
\* installation is not removed, from some time on every task of every
\* repository is complete, syncStatus is COMPLETE, no job waits and no
\* execution runs: no further job is enqueued.
C21_EventuallyComplete ==
    [](faults = 0) => <>[](AllTasksComplete /\ store.syncStatus = "COMPLETE" /\ Quiescent)

\* a run without errors has come to its end after fetching every page of
\* every task
C21_Witness ==
    /\ faults = 0
    /\ Quiescent
    /\ store.syncStatus = "COMPLETE"
    /\ \A id \in RepoIds, t \in TaskSet :
           /\ store.repos[id].status[t] = "complete"
           /\ store.repos[id].cursor[t] = Items(id, t)

----------------------------------------------------------------------------
(* Properties of the middleware (SpecWorker) *)

\* C22: the wrapped handler does not settle before the inner handler has
\* finished, and when the inner handler has rejected, the settled wrapped
\* handler has captured the error in Sentry and thrown it again, and the
\* queue sees the job as failed, never as completed.
C22_RejectionReachesQueue ==
    /\ mw.sentry \in {"resolved", "rejected"} => mw.inner \in {"resolved", "rejected"}
    /\ (mw.inner = "rejected" /\ mw.sentry \in {"resolved", "rejected"}) =>
           /\ mw.sentry = "rejected"
           /\ mw.captured = mw.outcome
           /\ mw.thrown = mw.outcome
           /\ mw.event # "completed"

----------------------------------------------------------------------------
(* Jobs enqueued by one execution *)

\* C23: an execution of processInstallation has enqueued at most one job
\* when its promise settles, and none when it has marked the installation
\* FAILED.
C23_AtMostOneFollowUp ==
    \A i \in Workers :
        jobs[i].pc = "done" =>
            /\ Len(jobs[i].added) <= 1
            /\ jobs[i].markedFailed => jobs[i].added = <<>>

----------------------------------------------------------------------------
(* The persisted state under concurrent jobs *)

\* C24: in every reachable state of the engine with concurrent workers in
\* which no collaborator has raised an error and no job was delivered twice,
\* whenever the persisted syncStatus is COMPLETE, every repository has its
\* pull, branch and commit statuses complete.
C24_CompleteImpliesAllComplete ==
    (faults = 0 /\ dups = 0 /\ store.syncStatus = "COMPLETE") => AllTasksComplete


\* the execution of worker i has set the status (and cursor) of its page,
\* has enqueued its follow-up job and has not saved its progress yet
AwaitsSave(i) ==
    /\ jobs[i].pc = "save"
    /\ ~jobs[i].inCatch
    /\ jobs[i].added # <<>>

\* C25: in a run without errors and without duplicate deliveries, while an
\* execution that has enqueued its follow-up job has not yet persisted its
\* progress, no other execution (which can only be that
\* follow-up or a job after it) works on the same task of the same
\* repository from the cursor that execution started from.
C25_FollowUpSeesUpdate ==
    (faults = 0 /\ dups = 0) =>
        \A i, j \in Workers :
            (i # j /\ AwaitsSave(i)) =>
                ~ /\ jobs[j].pc \in {"execute", "update", "save"}
                  /\ jobs[j].repositoryId = jobs[i].repositoryId
                  /\ jobs[j].task = jobs[i].task
                  /\ jobs[j].cursor = jobs[i].cursor

====
